---- MODULE Spec2Model ----
(***************************************************************************)
(* A model of the cnc-penplotter repository.                               *)
(*                                                                         *)
(*   - the device session of src/esp32/main.py: boot (wake, drain, pen-up, *)
(*     unlock, home, zero), the poll loop, run_job, reset_after_job and    *)
(*     the acknowledgment protocol send_line_wait over a byte stream that  *)
(*     the controller may deliver in arbitrary chunks;                     *)
(*   - the toolpath compiler and the layout engine of src/back-end.        *)
(*                                                                         *)
(* Byte strings and text are sequences of one-character strings, so that   *)
(* strip, lower, split and the substring test are computed as the code     *)
(* computes them.  Python's None is the empty sequence wherever the code   *)
(* never returns an empty string as a value other than None.               *)
(***************************************************************************)
EXTENDS Integers, Sequences, FiniteSets, TLC

(***************************************************************************)
(* Bounds of the model.                                                    *)
(***************************************************************************)
\* Granularity of the clock: time.ticks_ms() is observed in steps of TickMs.
TickMs == 30000
\* The most earlier bytes still unsent or unread (wire plus UART buffer) on top
\* of which the controller writes another reply; above it the controller stays silent.
MaxBacklog == 1
\* The longest buffer of a call onto which the controller still sends unasked bytes.
MaxChatter == 2
\* The most bytes the controller holds unsent or unread where progress is checked.
MaxLiveBacklog == 5
\* The number of requests app.py serves concurrently.
MaxRequests == 3

(***************************************************************************)
(* Characters and byte strings.                                            *)
(***************************************************************************)
NONE == <<>>

IsSpace(c) == c \in {" ", "\t", "\n", "\r"}

\* bytes.lower(): ASCII letters only.
LowerByte(c) ==
  CASE c = "A" -> "a" [] c = "D" -> "d" [] c = "E" -> "e" [] c = "G" -> "g"
    [] c = "K" -> "k" [] c = "L" -> "l" [] c = "M" -> "m" [] c = "N" -> "n"
    [] c = "O" -> "o" [] c = "P" -> "p" [] c = "R" -> "r"
    [] OTHER -> c

Lower(s) == [i \in 1..Len(s) |-> LowerByte(s[i])]

\* str.upper(), on the letters the poll responses use.
UpperChar(c) ==
  CASE c = "n" -> "N" [] c = "o" -> "O" [] c = "j" -> "J" [] c = "b" -> "B"
    [] c = "e" -> "E" [] c = "g" -> "G"
    [] OTHER -> c

Upper(s) == [i \in 1..Len(s) |-> UpperChar(s[i])]

RECURSIVE LStrip(_)
LStrip(s) == IF s # <<>> /\ IsSpace(Head(s)) THEN LStrip(Tail(s)) ELSE s

RECURSIVE RStrip(_)
RStrip(s) ==
  IF s # <<>> /\ IsSpace(s[Len(s)]) THEN RStrip(SubSeq(s, 1, Len(s) - 1)) ELSE s

\* str.strip()
Strip(s) == RStrip(LStrip(s))

\* Python's `tok in buf` on byte strings.
Contains(b, tok) ==
  \E i \in 1..(Len(b) - Len(tok) + 1) : SubSeq(b, i, i + Len(tok) - 1) = tok

\* s.split(ch, 1)[0]: the part of s before the first ch (all of s without one).
RECURSIVE BeforeFirst(_, _)
BeforeFirst(s, ch) ==
  IF s = <<>> \/ Head(s) = ch THEN <<>>
  ELSE <<Head(s)>> \o BeforeFirst(Tail(s), ch)

\* str.splitlines() for text whose line breaks are "\n", as the back end joins
\* its programs: no empty last line after a trailing break.
RECURSIVE SplitLines(_)
SplitLines(s) ==
  IF s = <<>> THEN <<>>
  ELSE LET first == BeforeFirst(s, "\n")
           rest == SubSeq(s, Len(first) + 2, Len(s))
       IN <<first>> \o SplitLines(rest)

(***************************************************************************)
(* src/esp32/main.py: constants.                                           *)
(***************************************************************************)
NOJOB_TOKENS == {<<>>, <<"N", "O", "J", "O", "B">>, <<"N", "O", "N", "E">>}

TOK_OK == <<"o", "k">>
TOK_PGM_END == <<"p", "g", "m", " ", "e", "n", "d">>
TOK_ALARM == <<"a", "l", "a", "r", "m">>
TOK_ERROR == <<"e", "r", "r", "o", "r">>

CMD_PEN_UP == <<"M", "5">>
CMD_UNLOCK == <<"$", "X">>
CMD_HOME == <<"$", "H">>
CMD_ABSOLUTE == <<"G", "9", "0">>
CMD_MM == <<"G", "2", "1">>
CMD_SET_ORIGIN == <<"G", "9", "2", " ", "X", "0", " ", "Y", "0">>
CMD_GO_ORIGIN == <<"G", "0", " ", "X", "0", " ", "Y", "0">>

UNLOCK_ATTEMPTS == 5
PEN_UP_TIMEOUT_MS == 8000
UNLOCK_TIMEOUT_MS == 8000
HOME_TIMEOUT_MS == 90000
MODE_TIMEOUT_MS == 5000
JOB_LINE_TIMEOUT_MS == 20000
GO_ORIGIN_TIMEOUT_MS == 30000
BOOT_FLUSH_MS == 1200
JOB_FLUSH_MS == 600

(***************************************************************************)
(* The controller and the job source: what they may answer.                *)
(***************************************************************************)
\* What the controller may write in reply to one command.  Any of these is
\* then delivered to the UART byte by byte, so a read sees any chunking.
Responses ==
  { <<>>,
    <<"x">>,
    <<"x", "O", "k">>,
    <<"P", "g", "m", " ", "E", "n", "d">>,
    <<"e", "r", "r", "o", "r">>,
    <<"A", "L", "A", "R", "M">>,
    <<"e", "r", "r", "o", "r", "o", "k">> }

\* What the controller may write after the wake sequence "\r\n\r\n".
Banners == { <<>>, <<"x">>, <<"o", "k">> }

\* What a poll of the job source may produce: an exception, or a body.
FetchResults ==
  { [err |-> TRUE, text |-> <<>>],
    [err |-> FALSE, text |-> <<>>],
    [err |-> FALSE, text |-> <<"N", "O", "J", "O", "B">>],
    [err |-> FALSE, text |-> <<" ", "n", "o", "n", "e", "\n">>],
    [err |-> FALSE, text |-> <<"G", "1">>],
    [err |-> FALSE, text |-> <<";", "c", "\n", "G", "1", ";", "c", "\n", "\n", "M", "3", "0", "\n">>],
    [err |-> FALSE, text |-> <<"(", "c", ")", "\n", " ", "G", "0", "\n", "G", "1">>] }

VARIABLES
  pc,         \* where the session is in main.py
  io,         \* send_line_wait: "idle" (not in a call), "wait", "ok", "fail" (returned)
  elapsed,    \* ticks_diff(ticks_ms(), start) of the running wait or flush
  buf,        \* send_line_wait's cumulative, case-folded buffer
  r,          \* send_line_wait's last chunk, as read
  attempt,    \* the unlock loop's index
  unlocked,   \* grbl_home_and_zero's flag
  job,        \* the lines of the job that run_job has yet to take
  wire,       \* bytes the controller has written that are not yet in the UART buffer
  rx,         \* the UART receive buffer
  txlog,      \* history: the lines transmitted since power-up, or since the last poll
  acked,      \* history: the boot stages whose command was acknowledged (those of
              \* the zeroing commands, whose results are ignored, until the first poll)
  haltedFrom, \* history: the stage whose failure halted the session, or "none"
  stale,      \* history: how many of the bytes next to be read (UART buffer, then
              \* wire) the controller wrote before the running call's line was sent
  staleBuf    \* history: how many of buf's first bytes were such earlier bytes

session == <<pc, io, elapsed, buf, r, attempt, unlocked, job, wire, rx, txlog, acked, haltedFrom,
            stale, staleBuf>>

VARIABLES
  fn,         \* the back-end function that was applied, or "none"
  textIn,     \* its text argument
  budget,     \* _wrap_text_lines' max_width_units
  segsIn,     \* the segments given to _to_gcode / to_gcode
  program,    \* the program returned, a sequence of commands
  wrapped,    \* the lines returned by _wrap_text_lines
  flips       \* <<FLIP_X, FLIP_Y>> as the module is configured

VARIABLES
  _job_queue, \* app.py's deque of texts
  _lock,      \* the request that holds the lock, or 0
  rpc,        \* where each request is in its handler
  data,       \* the "text" field each request came with
  ltext,      \* each handler's local `text`
  reply,      \* what each request was answered
  accepted,   \* history: the texts enqueued, in the order of their append
  delivered   \* history: the texts taken by polls, in the order of their popleft

server == <<_job_queue, _lock, rpc, data, ltext, reply, accepted, delivered>>

backend == <<fn, textIn, budget, segsIn, program, wrapped, flips, server>>

vars == <<session, backend>>

Procs == 1..MaxRequests
NoReply == [route |-> "", code |-> 0, error |-> "", job |-> <<>>, position |-> 0]

FlushStages == {"settle", "rec_flush"}
ZeroStages == {"zero_g90", "zero_g21", "zero_g92"}
BootStages == {"wake", "settle", "boot_m5", "unlock", "backoff", "home",
               "zero_g90", "zero_g21", "zero_g92"}
RecoverStages == {"rec_m5", "rec_g90", "rec_g21", "rec_g0", "rec_g92", "rec_flush"}

\* The timeout each call site passes to send_line_wait.
StageTimeout(stage) ==
  CASE stage = "boot_m5" -> PEN_UP_TIMEOUT_MS
    [] stage = "unlock" -> UNLOCK_TIMEOUT_MS
    [] stage = "home" -> HOME_TIMEOUT_MS
    [] stage \in {"zero_g90", "zero_g21", "zero_g92"} -> MODE_TIMEOUT_MS
    [] stage = "run" -> JOB_LINE_TIMEOUT_MS
    [] stage = "rec_m5" -> PEN_UP_TIMEOUT_MS
    [] stage \in {"rec_g90", "rec_g21", "rec_g92"} -> MODE_TIMEOUT_MS
    [] stage = "rec_g0" -> GO_ORIGIN_TIMEOUT_MS
    [] OTHER -> 0

FlushMs(stage) == IF stage = "settle" THEN BOOT_FLUSH_MS ELSE JOB_FLUSH_MS

(***************************************************************************)
(* normalize_gcode_line and fetch_job_text.                                *)
(***************************************************************************)
normalize_gcode_line(raw) ==
  LET a == Strip(raw)
      b == IF \E i \in 1..Len(a) : a[i] = ";" THEN Strip(BeforeFirst(a, ";")) ELSE a
  IN IF a = <<>> THEN NONE
     ELSE IF b = <<>> \/ Head(b) = "(" THEN NONE
     ELSE b

\* Mutant: the sentinel is compared without upper-casing the body.
fetch_job_text_caseSensitive(res) ==
  IF res.err THEN NONE
  ELSE LET text == Strip(res.text)
       IN IF text \in NOJOB_TOKENS \/ Len(text) = 0 THEN NONE ELSE text

fetch_job_text(res) ==
  IF res.err THEN NONE
  ELSE LET text == Strip(res.text)
       IN IF Upper(text) \in NOJOB_TOKENS \/ Len(text) = 0 THEN NONE ELSE text

(***************************************************************************)
(* send_line_wait.                                                         *)
(***************************************************************************)
\* The controller writes its reply to a transmitted line.
ControllerReplies(set) ==
  \E resp \in set :
    /\ (resp = <<>> \/ Len(wire) + Len(rx) <= MaxBacklog)
    /\ wire' = wire \o resp

\* Lines 52-60: strip, return True for nothing to send, else write and start waiting.
SendLineWait(l) ==
  LET ln == Strip(l)
  IN IF ln = <<>>
     THEN /\ io' = "ok"
          /\ UNCHANGED <<txlog, wire, elapsed, buf, r, stale, staleBuf>>
     ELSE /\ txlog' = Append(txlog, ln)
          /\ ControllerReplies(Responses)
          /\ io' = "wait"
          /\ elapsed' = 0
          /\ buf' = <<>>
          /\ r' = <<>>
          /\ stale' = Len(rx) + Len(wire)
          /\ staleBuf' = 0

\* Mutant: the tokens are looked for in the chunk just read, not in the buffer.
Classify_lastChunkOnly(b, c) ==
  IF Contains(Lower(c), TOK_OK) \/ Contains(Lower(c), TOK_PGM_END) THEN "ok"
  ELSE IF Contains(Lower(c), TOK_ALARM) \/ Contains(Lower(c), TOK_ERROR) THEN "fail"
  ELSE "wait"

\* Lines 79-85 on the buffer b after the chunk c was appended to it.
Classify(b, c) ==
  IF Contains(b, TOK_OK) \/ Contains(b, TOK_PGM_END) THEN "ok"
  ELSE IF Contains(b, TOK_ALARM) \/ Contains(b, TOK_ERROR) THEN "fail"
  ELSE "wait"

\* How many of the n earlier bytes a read of chunk takes.
Taken(n, chunk) == IF n < Len(chunk) THEN n ELSE Len(chunk)

\* Lines 62-85: one turn of the loop in which read_chunk returned bytes.
ReadChunk ==
  /\ io = "wait"
  /\ elapsed < StageTimeout(pc)
  /\ rx # <<>>
  /\ r' = rx
  /\ rx' = <<>>
  /\ buf' = buf \o Lower(rx)
  /\ io' = Classify(buf \o Lower(rx), rx)
  /\ stale' = stale - Taken(stale, rx)
  /\ staleBuf' = staleBuf + Taken(stale, rx)
  /\ UNCHANGED <<pc, elapsed, attempt, unlocked, job, wire, txlog, acked, haltedFrom>>
  /\ UNCHANGED backend

\* Mutant: running out of time is reported as success.
WaitTimeout_returnsTrue ==
  /\ io = "wait"
  /\ elapsed >= StageTimeout(pc)
  /\ io' = "ok"
  /\ UNCHANGED <<pc, elapsed, buf, r, attempt, unlocked, job, wire, rx, txlog, acked, haltedFrom>>
  /\ UNCHANGED backend
  /\ UNCHANGED <<stale, staleBuf>>

\* Lines 62, 87-88: the loop condition fails.
WaitTimeout ==
  /\ io = "wait"
  /\ elapsed >= StageTimeout(pc)
  /\ io' = "fail"
  /\ UNCHANGED <<pc, elapsed, buf, r, attempt, unlocked, job, wire, rx, txlog, acked, haltedFrom>>
  /\ UNCHANGED backend
  /\ UNCHANGED <<stale, staleBuf>>

\* Time passes while the session waits in send_line_wait or in flush_uart
\* (read_chunk returning None, time.sleep_ms).
TimePasses ==
  /\ \/ io = "wait" /\ elapsed < StageTimeout(pc)
     \/ pc \in FlushStages /\ elapsed < FlushMs(pc)
  /\ elapsed' = elapsed + TickMs
  /\ UNCHANGED <<pc, io, buf, r, attempt, unlocked, job, wire, rx, txlog, acked, haltedFrom>>
  /\ UNCHANGED backend
  /\ UNCHANGED <<stale, staleBuf>>

\* The controller's next byte arrives in the UART buffer.
ControllerEmit ==
  /\ wire # <<>>
  /\ rx' = Append(rx, Head(wire))
  /\ wire' = Tail(wire)
  /\ UNCHANGED <<pc, io, elapsed, buf, r, attempt, unlocked, job, txlog, acked, haltedFrom>>
  /\ UNCHANGED backend
  /\ UNCHANGED <<stale, staleBuf>>

\* The controller goes on sending bytes that are no token while a call waits
\* (status reports, feedback messages).
ControllerChatter ==
  /\ io = "wait"
  /\ wire = <<>>
  /\ rx = <<>>
  /\ Len(buf) < MaxChatter
  /\ rx' = <<"x">>
  /\ UNCHANGED <<pc, io, elapsed, buf, r, attempt, unlocked, job, wire, txlog, acked, haltedFrom>>
  /\ UNCHANGED backend
  /\ UNCHANGED <<stale, staleBuf>>

\* The caller takes the result: the locals of the call are gone.
Returned(next) ==
  /\ pc' = next
  /\ io' = "idle"
  /\ elapsed' = 0
  /\ buf' = <<>>
  /\ r' = <<>>
  /\ staleBuf' = 0

\* `while True: time.sleep(1)`
Halt ==
  /\ haltedFrom' = pc
  /\ Returned("halted")

(***************************************************************************)
(* flush_uart.                                                             *)
(***************************************************************************)
FlushRead ==
  /\ pc \in FlushStages
  /\ elapsed < FlushMs(pc)
  /\ rx # <<>>
  /\ rx' = <<>>
  /\ stale' = stale - Taken(stale, rx)
  /\ UNCHANGED <<pc, io, elapsed, buf, r, attempt, unlocked, job, wire, txlog, acked, haltedFrom, staleBuf>>
  /\ UNCHANGED backend

(***************************************************************************)
(* grbl_home_and_zero.                                                     *)
(***************************************************************************)
BootWake ==
  /\ pc = "wake"
  /\ ControllerReplies(Banners)
  /\ pc' = "settle"
  /\ elapsed' = 0
  /\ UNCHANGED <<io, buf, r, attempt, unlocked, job, rx, txlog, acked, haltedFrom>>
  /\ UNCHANGED backend
  /\ UNCHANGED <<stale, staleBuf>>

BootFlushDone ==
  /\ pc = "settle"
  /\ elapsed >= FlushMs(pc)
  /\ pc' = "boot_m5"
  /\ elapsed' = 0
  /\ UNCHANGED <<io, buf, r, attempt, unlocked, job, wire, rx, txlog, acked, haltedFrom>>
  /\ UNCHANGED backend
  /\ UNCHANGED <<stale, staleBuf>>

BootPenUp ==
  /\ pc = "boot_m5"
  /\ io = "idle"
  /\ SendLineWait(CMD_PEN_UP)
  /\ UNCHANGED <<pc, attempt, unlocked, job, rx, acked, haltedFrom>>
  /\ UNCHANGED backend

BootPenUpRet ==
  /\ pc = "boot_m5"
  /\ io \in {"ok", "fail"}
  /\ IF io = "ok"
     THEN /\ Returned("unlock")
          /\ acked' = acked \cup {"boot_m5"}
          /\ UNCHANGED haltedFrom
     ELSE /\ Halt
          /\ UNCHANGED acked
  /\ UNCHANGED <<attempt, unlocked, job, wire, rx, txlog>>
  /\ UNCHANGED backend
  /\ UNCHANGED stale

Unlock ==
  /\ pc = "unlock"
  /\ io = "idle"
  /\ SendLineWait(CMD_UNLOCK)
  /\ UNCHANGED <<pc, attempt, unlocked, job, rx, acked, haltedFrom>>
  /\ UNCHANGED backend

\* Mutant: the loop is left for homing whatever the attempt returned.
UnlockRet_resultIgnored ==
  /\ pc = "unlock"
  /\ io \in {"ok", "fail"}
  /\ unlocked' = TRUE
  /\ attempt' = 0
  /\ acked' = IF io = "ok" THEN acked \cup {"unlock"} ELSE acked
  /\ Returned("home")
  /\ UNCHANGED <<job, wire, rx, txlog, haltedFrom>>
  /\ UNCHANGED backend
  /\ UNCHANGED stale

UnlockRet ==
  /\ pc = "unlock"
  /\ io \in {"ok", "fail"}
  /\ IF io = "ok"
     THEN /\ unlocked' = TRUE
          /\ attempt' = 0
          /\ acked' = acked \cup {"unlock"}
          /\ Returned("home")
     ELSE /\ Returned("backoff")
          /\ UNCHANGED <<unlocked, attempt, acked>>
  /\ UNCHANGED <<job, wire, rx, txlog, haltedFrom>>
  /\ UNCHANGED backend
  /\ UNCHANGED stale

\* Mutant: one attempt too many.
UnlockBackoff_offByOne ==
  /\ pc = "backoff"
  /\ IF attempt + 1 <= UNLOCK_ATTEMPTS
     THEN /\ pc' = "unlock"
          /\ attempt' = attempt + 1
          /\ UNCHANGED <<io, elapsed, buf, r, haltedFrom, staleBuf>>
     ELSE /\ attempt' = 0
          /\ haltedFrom' = "unlock"
          /\ Returned("halted")
  /\ UNCHANGED <<unlocked, job, wire, rx, txlog, acked>>
  /\ UNCHANGED backend
  /\ UNCHANGED stale

\* time.sleep(0.3), then the next attempt, or the end of the loop with
\* unlocked still False.
UnlockBackoff ==
  /\ pc = "backoff"
  /\ IF attempt + 1 < UNLOCK_ATTEMPTS
     THEN /\ pc' = "unlock"
          /\ attempt' = attempt + 1
          /\ UNCHANGED <<io, elapsed, buf, r, haltedFrom, staleBuf>>
     ELSE /\ attempt' = 0
          /\ haltedFrom' = "unlock"
          /\ Returned("halted")
  /\ UNCHANGED <<unlocked, job, wire, rx, txlog, acked>>
  /\ UNCHANGED backend
  /\ UNCHANGED stale

Home ==
  /\ pc = "home"
  /\ io = "idle"
  /\ SendLineWait(CMD_HOME)
  /\ UNCHANGED <<pc, attempt, unlocked, job, rx, acked, haltedFrom>>
  /\ UNCHANGED backend

\* Mutant: the session goes on to zeroing whatever homing returned.
HomeRet_resultIgnored ==
  /\ pc = "home"
  /\ io \in {"ok", "fail"}
  /\ Returned("zero_g90")
  /\ acked' = IF io = "ok" THEN acked \cup {"home"} ELSE acked
  /\ UNCHANGED <<attempt, unlocked, job, wire, rx, txlog, haltedFrom>>
  /\ UNCHANGED backend
  /\ UNCHANGED stale

HomeRet ==
  /\ pc = "home"
  /\ io \in {"ok", "fail"}
  /\ IF io = "ok"
     THEN /\ Returned("zero_g90")
          /\ acked' = acked \cup {"home"}
          /\ UNCHANGED haltedFrom
     ELSE /\ Halt
          /\ UNCHANGED acked
  /\ UNCHANGED <<attempt, unlocked, job, wire, rx, txlog>>
  /\ UNCHANGED backend
  /\ UNCHANGED stale

ZeroLine(stage) ==
  CASE stage = "zero_g90" -> CMD_ABSOLUTE
    [] stage = "zero_g21" -> CMD_MM
    [] stage = "zero_g92" -> CMD_SET_ORIGIN

ZeroNext(stage) ==
  CASE stage = "zero_g90" -> "zero_g21"
    [] stage = "zero_g21" -> "zero_g92"
    [] stage = "zero_g92" -> "poll"

\* Lines 136-138: the three results are ignored.
Zero ==
  /\ pc \in {"zero_g90", "zero_g21", "zero_g92"}
  /\ io = "idle"
  /\ SendLineWait(ZeroLine(pc))
  /\ UNCHANGED <<pc, attempt, unlocked, job, rx, acked, haltedFrom>>
  /\ UNCHANGED backend

\* Mutant: a failed zeroing command halts like a failed homing.
ZeroRet_failureHalts ==
  /\ pc \in {"zero_g90", "zero_g21", "zero_g92"}
  /\ io \in {"ok", "fail"}
  /\ IF io = "ok"
     THEN /\ Returned(ZeroNext(pc))
          /\ acked' = acked \cup {pc}
          /\ UNCHANGED haltedFrom
     ELSE /\ Halt
          /\ UNCHANGED acked
  /\ UNCHANGED <<attempt, unlocked, job, wire, rx, txlog>>
  /\ UNCHANGED backend
  /\ UNCHANGED stale

ZeroRet ==
  /\ pc \in {"zero_g90", "zero_g21", "zero_g92"}
  /\ io \in {"ok", "fail"}
  /\ Returned(ZeroNext(pc))
  /\ acked' = IF io = "ok" THEN acked \cup {pc} ELSE acked
  /\ UNCHANGED <<attempt, unlocked, job, wire, rx, txlog, haltedFrom>>
  /\ UNCHANGED backend
  /\ UNCHANGED stale

(***************************************************************************)
(* The main loop, run_job and reset_after_job.                             *)
(***************************************************************************)
\* Lines 208-214: fetch; no job sleeps, a job starts run_job.
Poll ==
  /\ pc = "poll"
  /\ \E res \in FetchResults :
       LET text == fetch_job_text(res)
       IN IF text = NONE
          THEN /\ pc' = "poll_sleep"
               /\ UNCHANGED job
          ELSE /\ pc' = "run"
               /\ job' = SplitLines(text)
  /\ txlog' = <<>>
  /\ acked' = acked \ ZeroStages
  /\ UNCHANGED <<io, elapsed, buf, r, attempt, unlocked, wire, rx, haltedFrom>>
  /\ UNCHANGED backend
  /\ UNCHANGED <<stale, staleBuf>>

\* Mutant: the sleep of a halted session ends like the sleep between polls.
PollSleep_wakesHalted ==
  /\ pc \in {"poll_sleep", "job_sleep", "halted"}
  /\ pc' = "poll"
  /\ UNCHANGED <<io, elapsed, buf, r, attempt, unlocked, job, wire, rx, txlog, acked, haltedFrom>>
  /\ UNCHANGED backend
  /\ UNCHANGED <<stale, staleBuf>>

\* time.sleep(POLL_SECONDS) at line 210 and at line 220.
PollSleep ==
  /\ pc \in {"poll_sleep", "job_sleep"}
  /\ pc' = "poll"
  /\ UNCHANGED <<io, elapsed, buf, r, attempt, unlocked, job, wire, rx, txlog, acked, haltedFrom>>
  /\ UNCHANGED backend
  /\ UNCHANGED <<stale, staleBuf>>

\* Lines 187-190: a line that normalizes to None is skipped.
RunSkip ==
  /\ pc = "run"
  /\ io = "idle"
  /\ job # <<>>
  /\ normalize_gcode_line(Head(job)) = NONE
  /\ job' = Tail(job)
  /\ UNCHANGED <<pc, io, elapsed, buf, r, attempt, unlocked, wire, rx, txlog, acked, haltedFrom>>
  /\ UNCHANGED backend
  /\ UNCHANGED <<stale, staleBuf>>

\* Line 192.
RunLine ==
  /\ pc = "run"
  /\ io = "idle"
  /\ job # <<>>
  /\ normalize_gcode_line(Head(job)) # NONE
  /\ SendLineWait(normalize_gcode_line(Head(job)))
  /\ job' = Tail(job)
  /\ UNCHANGED <<pc, attempt, unlocked, rx, acked, haltedFrom>>
  /\ UNCHANGED backend

\* Mutant: a failed line is reported and the job goes on.
RunLineRet_keepGoing ==
  /\ pc = "run"
  /\ io \in {"ok", "fail"}
  /\ Returned("run")
  /\ UNCHANGED <<attempt, unlocked, job, wire, rx, txlog, acked, haltedFrom>>
  /\ UNCHANGED backend
  /\ UNCHANGED stale

\* Lines 193-197.
RunLineRet ==
  /\ pc = "run"
  /\ io \in {"ok", "fail"}
  /\ IF io = "ok"
     THEN /\ Returned("run")
          /\ UNCHANGED haltedFrom
     ELSE Halt
  /\ UNCHANGED <<attempt, unlocked, job, wire, rx, txlog, acked>>
  /\ UNCHANGED backend
  /\ UNCHANGED stale

\* Lines 199-200 and 216-217: JOB DONE, on to reset_after_job.
RunDone ==
  /\ pc = "run"
  /\ io = "idle"
  /\ job = <<>>
  /\ pc' = "rec_m5"
  /\ UNCHANGED <<io, elapsed, buf, r, attempt, unlocked, job, wire, rx, txlog, acked, haltedFrom>>
  /\ UNCHANGED backend
  /\ UNCHANGED <<stale, staleBuf>>

ResetLine(stage) ==
  CASE stage = "rec_m5" -> CMD_PEN_UP
    [] stage = "rec_g90" -> CMD_ABSOLUTE
    [] stage = "rec_g21" -> CMD_MM
    [] stage = "rec_g0" -> CMD_GO_ORIGIN
    [] stage = "rec_g92" -> CMD_SET_ORIGIN

\* Mutant: the origin is re-asserted before the move back to it.
ResetNext_rezeroFirst(stage) ==
  CASE stage = "rec_m5" -> "rec_g90"
    [] stage = "rec_g90" -> "rec_g21"
    [] stage = "rec_g21" -> "rec_g92"
    [] stage = "rec_g92" -> "rec_g0"
    [] stage = "rec_g0" -> "rec_flush"

ResetNext(stage) ==
  CASE stage = "rec_m5" -> "rec_g90"
    [] stage = "rec_g90" -> "rec_g21"
    [] stage = "rec_g21" -> "rec_g0"
    [] stage = "rec_g0" -> "rec_g92"
    [] stage = "rec_g92" -> "rec_flush"

ResetSend ==
  /\ pc \in {"rec_m5", "rec_g90", "rec_g21", "rec_g0", "rec_g92"}
  /\ io = "idle"
  /\ SendLineWait(ResetLine(pc))
  /\ UNCHANGED <<pc, attempt, unlocked, job, rx, acked, haltedFrom>>
  /\ UNCHANGED backend

\* Mutant: the results of pen-up and of the move to the origin are ignored too.
ResetFatalRet_resultIgnored ==
  /\ pc \in {"rec_m5", "rec_g0"}
  /\ io \in {"ok", "fail"}
  /\ Returned(ResetNext(pc))
  /\ UNCHANGED <<attempt, unlocked, job, wire, rx, txlog, acked, haltedFrom>>
  /\ UNCHANGED backend
  /\ UNCHANGED stale

\* Lines 148-151 and 157-160: pen-up and the move to the origin are fatal.
ResetFatalRet ==
  /\ pc \in {"rec_m5", "rec_g0"}
  /\ io \in {"ok", "fail"}
  /\ IF io = "ok"
     THEN /\ Returned(ResetNext(pc))
          /\ UNCHANGED haltedFrom
     ELSE Halt
  /\ UNCHANGED <<attempt, unlocked, job, wire, rx, txlog, acked>>
  /\ UNCHANGED backend
  /\ UNCHANGED stale

\* Lines 153-154 and 163: the results are ignored.
ResetIgnoredRet ==
  /\ pc \in {"rec_g90", "rec_g21", "rec_g92"}
  /\ io \in {"ok", "fail"}
  /\ Returned(ResetNext(pc))
  /\ UNCHANGED <<attempt, unlocked, job, wire, rx, txlog, acked, haltedFrom>>
  /\ UNCHANGED backend
  /\ UNCHANGED stale

\* Line 166 done, then lines 219-220.
ResetFlushDone ==
  /\ pc = "rec_flush"
  /\ elapsed >= FlushMs(pc)
  /\ pc' = "job_sleep"
  /\ elapsed' = 0
  /\ UNCHANGED <<io, buf, r, attempt, unlocked, job, wire, rx, txlog, acked, haltedFrom>>
  /\ UNCHANGED backend
  /\ UNCHANGED <<stale, staleBuf>>

\* gcode.py lines 47-48.
FLIP_X == FALSE
FLIP_Y == FALSE

\* app.py right after its import: an empty queue, no request.
ServerIdle ==
  /\ _job_queue = <<>>
  /\ _lock = 0
  /\ rpc = [p \in Procs |-> "new"]
  /\ data = [p \in Procs |-> <<>>]
  /\ ltext = [p \in Procs |-> <<>>]
  /\ reply = [p \in Procs |-> NoReply]
  /\ accepted = <<>>
  /\ delivered = <<>>

Init ==
  /\ pc = "wake"
  /\ io = "idle"
  /\ elapsed = 0
  /\ buf = <<>>
  /\ r = <<>>
  /\ attempt = 0
  /\ unlocked = FALSE
  /\ job = <<>>
  /\ wire = <<>>
  /\ rx = <<>>
  /\ txlog = <<>>
  /\ acked = {}
  /\ haltedFrom = "none"
  /\ stale = 0
  /\ staleBuf = 0
  /\ fn = "none"
  /\ textIn = <<>>
  /\ budget = 0
  /\ segsIn = <<>>
  /\ program = <<>>
  /\ wrapped = <<>>
  /\ flips = <<FLIP_X, FLIP_Y>>
  /\ ServerIdle

Next ==
  \/ BootWake
  \/ FlushRead
  \/ BootFlushDone
  \/ BootPenUp
  \/ BootPenUpRet
  \/ Unlock
  \/ UnlockRet
  \/ UnlockBackoff
  \/ Home
  \/ HomeRet
  \/ Zero
  \/ ZeroRet
  \/ Poll
  \/ PollSleep
  \/ RunSkip
  \/ RunLine
  \/ RunLineRet
  \/ RunDone
  \/ ResetSend
  \/ ResetFatalRet
  \/ ResetIgnoredRet
  \/ ResetFlushDone
  \/ ReadChunk
  \/ WaitTimeout
  \/ TimePasses
  \/ ControllerEmit
  \/ ControllerChatter

Spec == Init /\ [][Next]_vars

\* The session with a controller that never has more than MaxLiveBacklog
\* bytes unsent or unread.
LiveBacklog == Len(wire') + Len(rx') <= MaxLiveBacklog

NextLive ==
  \/ BootWake /\ LiveBacklog
  \/ FlushRead /\ LiveBacklog
  \/ BootFlushDone /\ LiveBacklog
  \/ BootPenUp /\ LiveBacklog
  \/ BootPenUpRet /\ LiveBacklog
  \/ Unlock /\ LiveBacklog
  \/ UnlockRet /\ LiveBacklog
  \/ UnlockBackoff /\ LiveBacklog
  \/ Home /\ LiveBacklog
  \/ HomeRet /\ LiveBacklog
  \/ Zero /\ LiveBacklog
  \/ ZeroRet /\ LiveBacklog
  \/ Poll /\ LiveBacklog
  \/ PollSleep /\ LiveBacklog
  \/ RunSkip /\ LiveBacklog
  \/ RunLine /\ LiveBacklog
  \/ RunLineRet /\ LiveBacklog
  \/ RunDone /\ LiveBacklog
  \/ ResetSend /\ LiveBacklog
  \/ ResetFatalRet /\ LiveBacklog
  \/ ResetIgnoredRet /\ LiveBacklog
  \/ ResetFlushDone /\ LiveBacklog
  \/ ReadChunk /\ LiveBacklog
  \/ WaitTimeout /\ LiveBacklog
  \/ TimePasses /\ LiveBacklog
  \/ ControllerEmit /\ LiveBacklog
  \/ ControllerChatter /\ LiveBacklog

\* The session is one thread that always runs its next statement, and its
\* clock advances: some step is taken whenever one can be.
SpecLive == Init /\ [][NextLive]_vars /\ WF_vars(NextLive)

(***************************************************************************)
(* src/back-end/gcode.py and hershey_gcode_cli.py.                         *)
(*                                                                         *)
(* Lengths the code holds in millimetres are in micrometres here, so that  *)
(* the three decimals of the G-code words are exact; lengths in font units *)
(* are in fortieths of the capital height.  A segment is <<start, end>>, a *)
(* point <<x, y>>, a command <<word, x, y>>; an element of the code's list *)
(* `out` is one command, the two-line pen commands included.               *)
(***************************************************************************)
\* Bounds of the back-end's inputs.
MaxSegs == 2
MaxTextLen == 3

WORKSPACE_WIDTH_UM == 150000
WORKSPACE_HEIGHT_UM == 150000
MARGIN_UM == 5000
FEEDRATE == 2500
CLI_FEEDRATE == 1500
TARGET_CAP_HEIGHT_UM == 10000
LINE_GAP_CAP_MULT_PCT == 35
CONNECT_TOL_UM == 600
FALLBACK_UM_PER_UNIT == 350
CLAMP_COORDS == TRUE
WRAP_TEXT == TRUE
MAX_TEXT_WIDTH_UM == WORKSPACE_WIDTH_UM - 2 * MARGIN_UM

SET_UNITS == <<"G21", 0, 0>>
SET_ABSOLUTE == <<"G90", 0, 0>>
PEN_UP_CMD == <<"M5|G4", 0, 0>>
PEN_DOWN_CMD == <<"M03|G4", 0, 0>>
PROGRAM_END == <<"M30", 0, 0>>
Feed(rate) == <<"F", rate, 0>>
RapidMove(p) == <<"G0", p[1], p[2]>>
LinearMove(p) == <<"G1", p[1], p[2]>>

\* The font: hf.lines_for_text.  Strokes of a glyph in font units and the
\* advance to the next glyph; a character without strokes draws nothing.
Glyph(ch) ==
  CASE ch = "H" -> << <<<<0, 0>>, <<0, 40>>>>, <<<<0, 20>>, <<20, 20>>>>,
                      <<<<20, 0>>, <<20, 40>>>> >>
    [] ch = "L" -> << <<<<0, 40>>, <<0, 0>>>>, <<<<0, 0>>, <<16, 0>>>> >>
    [] OTHER -> <<>>

Advance(ch) ==
  CASE ch = "H" -> 30
    [] ch = "L" -> 24
    [] ch = " " -> 20
    [] OTHER -> 0

ShiftSegs(segs, dx, dy) ==
  [i \in 1..Len(segs) |->
     << <<segs[i][1][1] + dx, segs[i][1][2] + dy>>,
        <<segs[i][2][1] + dx, segs[i][2][2] + dy>> >>]

RECURSIVE LinesFrom(_, _)
LinesFrom(s, x) ==
  IF s = <<>> THEN <<>>
  ELSE ShiftSegs(Glyph(Head(s)), x, 0) \o LinesFrom(Tail(s), x + Advance(Head(s)))

lines_for_text(s) == LinesFrom(s, 0)

SetMin(S) == CHOOSE v \in S : \A w \in S : v <= w
SetMax(S) == CHOOSE v \in S : \A w \in S : v >= w

\* Mutant: the upper bound is forgotten.
_clamp_lowerOnly(v, lo, hi) == IF v < lo THEN lo ELSE v

_clamp(v, lo, hi) == IF v < lo THEN lo ELSE IF v > hi THEN hi ELSE v

\* <<minx, miny, maxx, maxy>>
_bbox_of_segments(segs) ==
  LET xs == {segs[i][j][1] : i \in 1..Len(segs), j \in 1..2}
      ys == {segs[i][j][2] : i \in 1..Len(segs), j \in 1..2}
  IN IF xs = {} THEN <<0, 0, 0, 0>>
     ELSE <<SetMin(xs), SetMin(ys), SetMax(xs), SetMax(ys)>>

_line_width_units(s) ==
  LET segs == lines_for_text(s)
  IN IF segs = <<>> THEN 0
     ELSE _bbox_of_segments(segs)[3] - _bbox_of_segments(segs)[1]

\* s.split(ch)
RECURSIVE Split(_, _)
Split(s, ch) ==
  LET first == BeforeFirst(s, ch)
  IN IF Len(first) = Len(s) THEN <<first>>
     ELSE <<first>> \o Split(SubSeq(s, Len(first) + 2, Len(s)), ch)

\* Lines 125-134: the hard wrap of the word w; the state is <<chunk, out_lines>>.
RECURSIVE HardWrap(_, _, _, _)
HardWrap(w, chunk, out_lines, max_width_units) ==
  IF w = <<>> THEN <<chunk, out_lines>>
  ELSE LET cand2 == Append(chunk, Head(w))
       IN IF _line_width_units(cand2) <= max_width_units
          THEN HardWrap(Tail(w), cand2, out_lines, max_width_units)
          ELSE HardWrap(Tail(w), <<Head(w)>>,
                        IF chunk # <<>> THEN Append(out_lines, chunk) ELSE out_lines,
                        max_width_units)

\* Line 113.
Candidate(cur, w) == IF cur = <<>> THEN w ELSE cur \o <<" ">> \o w

\* Mutant: the word is measured, not the line it would extend.
CandidateFits_measuresWord(cur, w, max_width_units) ==
  _line_width_units(w) <= max_width_units

\* Line 115.
CandidateFits(cur, w, max_width_units) ==
  _line_width_units(Candidate(cur, w)) <= max_width_units

\* Lines 112-138: the words of one line; returns out_lines with cur appended.
RECURSIVE WrapWords(_, _, _, _)
WrapWords(words, cur, out_lines, max_width_units) ==
  IF words = <<>> THEN Append(out_lines, cur)
  ELSE LET w == Head(words)
           candidate == Candidate(cur, w)
           flushed == IF cur # <<>> THEN Append(out_lines, cur) ELSE out_lines
           hard == HardWrap(w, <<>>, flushed, max_width_units)
       IN IF CandidateFits(cur, w, max_width_units)
          THEN WrapWords(Tail(words), candidate, out_lines, max_width_units)
          ELSE IF _line_width_units(w) > max_width_units
          THEN WrapWords(Tail(words), hard[1], hard[2], max_width_units)
          ELSE WrapWords(Tail(words), w, flushed, max_width_units)

RECURSIVE WrapRawLines(_, _, _)
WrapRawLines(raw, out_lines, max_width_units) ==
  IF raw = <<>> THEN out_lines
  ELSE IF Head(raw) = <<>>
  THEN WrapRawLines(Tail(raw), Append(out_lines, <<>>), max_width_units)
  ELSE WrapRawLines(Tail(raw),
                    WrapWords(Split(Head(raw), " "), <<>>, out_lines, max_width_units),
                    max_width_units)

\* text.splitlines() or [""]
LinesOrBlank(text) == IF SplitLines(text) = <<>> THEN << <<>> >> ELSE SplitLines(text)

_wrap_text_lines(text, max_width_units) ==
  WrapRawLines(LinesOrBlank(text), <<>>, max_width_units)

RECURSIVE StackDown(_, _, _)
StackDown(lines, y_cursor, line_gap_units) ==
  IF lines = <<>> THEN <<>>
  ELSE LET segs == lines_for_text(Head(lines))
           bb == _bbox_of_segments(segs)
           height == bb[4] - bb[2]
       IN IF segs = <<>>
          THEN StackDown(Tail(lines), y_cursor - line_gap_units, line_gap_units)
          ELSE ShiftSegs(segs, 0 - bb[1], y_cursor - bb[4])
                 \o StackDown(Tail(lines), y_cursor - (height + line_gap_units),
                              line_gap_units)

_segments_for_multiline_text_down(lines, line_gap_units) ==
  StackDown(lines, 0, line_gap_units)

\* Micrometres per font unit.
_mm_per_unit_for_cap_height ==
  LET segs == lines_for_text(<<"H">>)
      bb == _bbox_of_segments(segs)
      cap_height_units == bb[4] - bb[2]
  IN IF segs = <<>> THEN FALLBACK_UM_PER_UNIT
     ELSE IF cap_height_units <= 0 THEN FALLBACK_UM_PER_UNIT
     ELSE TARGET_CAP_HEIGHT_UM \div cap_height_units

\* Lines 213-223 for one point: placement and flips, before the clamp; twice
\* the block's centre is miny + maxy.
RawLeftMiddle(p, bb, mm_per_unit) ==
  LET X0 == (p[1] - bb[1]) * mm_per_unit + MARGIN_UM
      Y0 == ((2 * p[2] - (bb[2] + bb[4])) * mm_per_unit) \div 2
              + WORKSPACE_HEIGHT_UM \div 2
      X1 == IF flips[1] THEN WORKSPACE_WIDTH_UM - X0 ELSE X0
      Y1 == IF flips[2] THEN WORKSPACE_HEIGHT_UM - Y0 ELSE Y0
  IN <<X1, Y1>>

\* Lines 213-229 for one point.
PlaceLeftMiddle(p, bb, mm_per_unit) ==
  LET q == RawLeftMiddle(p, bb, mm_per_unit)
  IN IF CLAMP_COORDS
     THEN <<_clamp(q[1], MARGIN_UM, WORKSPACE_WIDTH_UM - MARGIN_UM),
            _clamp(q[2], MARGIN_UM, WORKSPACE_HEIGHT_UM - MARGIN_UM)>>
     ELSE q

_units_to_mm_left_middle(segs_units, mm_per_unit) ==
  LET bb == _bbox_of_segments(segs_units)
  IN [i \in 1..Len(segs_units) |->
        << PlaceLeftMiddle(segs_units[i][1], bb, mm_per_unit),
           PlaceLeftMiddle(segs_units[i][2], bb, mm_per_unit) >>]

\* A difference of coordinates; beyond 30 mm it counts as 30 mm, which keeps
\* its square within the model checker's integers and far above the tolerance.
Diff(u, v) ==
  IF u - v > 30000 THEN 30000 ELSE IF u - v < -30000 THEN -30000 ELSE u - v

\* Mutant: the vertical distance is forgotten.
_dist2_dxOnly(a, b) == Diff(a[1], b[1]) * Diff(a[1], b[1])

_dist2(a, b) ==
  LET dx == Diff(a[1], b[1])
      dy == Diff(a[2], b[2])
  IN dx * dx + dy * dy

\* Line 269; cur_pos None is NONE.
NeedsReposition(cur_pos, start) ==
  cur_pos = NONE \/ _dist2(cur_pos, start) > CONNECT_TOL_UM * CONNECT_TOL_UM

\* Mutant: the pen stays down on the way to the start of the next stroke.
RECURSIVE StrokeLoop_noLift(_, _, _, _)
StrokeLoop_noLift(segs_mm, out, pen_is_down, cur_pos) ==
  IF segs_mm = <<>> THEN <<out, pen_is_down>>
  ELSE LET start == Head(segs_mm)[1]
           end == Head(segs_mm)[2]
           out1 == IF NeedsReposition(cur_pos, start)
                   THEN IF pen_is_down THEN Append(out, RapidMove(start))
                        ELSE out \o <<RapidMove(start), PEN_DOWN_CMD>>
                   ELSE out
       IN StrokeLoop_noLift(Tail(segs_mm), Append(out1, LinearMove(end)), TRUE, end)

\* Lines 264-279; returns <<out, pen_is_down>>.
RECURSIVE StrokeLoop(_, _, _, _)
StrokeLoop(segs_mm, out, pen_is_down, cur_pos) ==
  IF segs_mm = <<>> THEN <<out, pen_is_down>>
  ELSE LET start == Head(segs_mm)[1]
           end == Head(segs_mm)[2]
           lifted == IF pen_is_down THEN Append(out, PEN_UP_CMD) ELSE out
           out1 == IF NeedsReposition(cur_pos, start)
                   THEN lifted \o <<RapidMove(start), PEN_DOWN_CMD>>
                   ELSE out
           pen1 == IF NeedsReposition(cur_pos, start) THEN TRUE ELSE pen_is_down
       IN StrokeLoop(Tail(segs_mm), Append(out1, LinearMove(end)), pen1, end)

\* Mutant: the pen is not lifted after the last stroke.
FinalLift_never(out, pen_is_down) == out

\* Lines 281-282.
FinalLift(out, pen_is_down) == IF pen_is_down THEN Append(out, PEN_UP_CMD) ELSE out

_to_gcode(segs_mm) ==
  LET header == <<SET_UNITS, SET_ABSOLUTE, PEN_UP_CMD, Feed(FEEDRATE)>>
      loop == StrokeLoop(segs_mm, header, FALSE, NONE)
  IN Append(FinalLift(loop[1], loop[2]), PROGRAM_END)

\* hershey_gcode_cli.py, which sets the same workspace and margin (lines
\* 14-16) and a capital height of 5 mm.
CLI_TARGET_CAP_HEIGHT_UM == 5000

clamp(v, lo, hi) == IF v < lo THEN lo ELSE IF v > hi THEN hi ELSE v

compute_mm_per_unit_for_cap_height ==
  LET segs == lines_for_text(<<"H">>)
      bb == _bbox_of_segments(segs)
      cap_height_units == bb[4] - bb[2]
  IN IF segs = <<>> THEN FALLBACK_UM_PER_UNIT
     ELSE IF cap_height_units <= 0 THEN FALLBACK_UM_PER_UNIT
     ELSE CLI_TARGET_CAP_HEIGHT_UM \div cap_height_units

\* Lines 114-124 for one point: the block's top-left goes to the top-left
\* of the drawable area.
RawTopLeft(p, bb, mm_per_unit) ==
  LET X0 == (p[1] - bb[1]) * mm_per_unit + MARGIN_UM
      Y0 == (p[2] - bb[4]) * mm_per_unit + (WORKSPACE_HEIGHT_UM - MARGIN_UM)
      X1 == IF flips[1] THEN WORKSPACE_WIDTH_UM - X0 ELSE X0
      Y1 == IF flips[2] THEN WORKSPACE_HEIGHT_UM - Y0 ELSE Y0
  IN <<X1, Y1>>

PlaceTopLeft(p, bb, mm_per_unit) ==
  LET q == RawTopLeft(p, bb, mm_per_unit)
  IN IF CLAMP_COORDS
     THEN <<clamp(q[1], MARGIN_UM, WORKSPACE_WIDTH_UM - MARGIN_UM),
            clamp(q[2], MARGIN_UM, WORKSPACE_HEIGHT_UM - MARGIN_UM)>>
     ELSE q

units_to_mm_top_left(segs_units, mm_per_unit) ==
  LET bb == _bbox_of_segments(segs_units)
  IN [i \in 1..Len(segs_units) |->
        << PlaceTopLeft(segs_units[i][1], bb, mm_per_unit),
           PlaceTopLeft(segs_units[i][2], bb, mm_per_unit) >>]

\* The pen is lifted around every segment.
RECURSIVE CliLoop(_)
CliLoop(segs_mm) ==
  IF segs_mm = <<>> THEN <<>>
  ELSE <<PEN_UP_CMD, RapidMove(Head(segs_mm)[1]), PEN_DOWN_CMD,
         LinearMove(Head(segs_mm)[2]), PEN_UP_CMD>> \o CliLoop(Tail(segs_mm))

to_gcode(segs_mm) ==
  <<SET_UNITS, SET_ABSOLUTE, PEN_UP_CMD, Feed(CLI_FEEDRATE)>>
    \o CliLoop(segs_mm) \o <<PROGRAM_END>>

\* text.rstrip("\n")
RECURSIVE RStripNewlines(_)
RStripNewlines(s) ==
  IF s # <<>> /\ s[Len(s)] = "\n" THEN RStripNewlines(SubSeq(s, 1, Len(s) - 1)) ELSE s

\* Line 292.
BlankProgram == <<SET_UNITS, SET_ABSOLUTE, PEN_UP_CMD, PROGRAM_END>>

text_to_gcode(t) ==
  LET text == RStripNewlines(t)
      mm_per_unit == _mm_per_unit_for_cap_height
      cap_height_units == TARGET_CAP_HEIGHT_UM \div mm_per_unit
      line_gap_units == (cap_height_units * LINE_GAP_CAP_MULT_PCT) \div 100
      max_width_units == MAX_TEXT_WIDTH_UM \div mm_per_unit
      lines == IF WRAP_TEXT THEN _wrap_text_lines(text, max_width_units)
               ELSE LinesOrBlank(text)
      segs_units == _segments_for_multiline_text_down(lines, line_gap_units)
      segs_mm == _units_to_mm_left_middle(segs_units, mm_per_unit)
  IN IF Strip(text) = <<>> THEN BlankProgram ELSE _to_gcode(segs_mm)

(***************************************************************************)
(* The back end as a state machine: an input is drawn, a function applied. *)
(***************************************************************************)
\* Segment ends at, below, and above the connection tolerance of each other.
Points == {<<0, 0>>, <<300, 400>>, <<600, 0>>, <<0, 601>>}
Segments == Points \X Points

RECURSIVE SeqsUpTo(_, _)
SeqsUpTo(S, n) ==
  IF n = 0 THEN {<<>>}
  ELSE LET shorter == SeqsUpTo(S, n - 1)
       IN shorter \cup {Append(q, e) : q \in shorter, e \in S}

TextChars == {"H", "L", " ", "\n", "~"}
Texts == SeqsUpTo(TextChars, MaxTextLen)
\* Width budgets in font units; the last is text_to_gcode's.
Budgets == {0, 16, 20, 50, MAX_TEXT_WIDTH_UM \div _mm_per_unit_for_cap_height}

SessionIdle ==
  /\ pc = "wake"
  /\ io = "idle"
  /\ elapsed = 0
  /\ buf = <<>>
  /\ r = <<>>
  /\ attempt = 0
  /\ unlocked = FALSE
  /\ job = <<>>
  /\ wire = <<>>
  /\ rx = <<>>
  /\ txlog = <<>>
  /\ acked = {}
  /\ haltedFrom = "none"
  /\ stale = 0
  /\ staleBuf = 0

InitCompile ==
  /\ SessionIdle
  /\ ServerIdle
  /\ flips = <<FLIP_X, FLIP_Y>>
  /\ fn = "none"
  /\ budget = 0
  /\ program = <<>>
  /\ wrapped = <<>>
  /\ \/ segsIn \in SeqsUpTo(Segments, MaxSegs) /\ textIn = <<>>
     \/ segsIn = <<>> /\ textIn \in Texts

ToGcode ==
  /\ fn = "none"
  /\ textIn = <<>>
  /\ fn' = "_to_gcode"
  /\ program' = _to_gcode(segsIn)
  /\ UNCHANGED <<session, server, textIn, budget, segsIn, wrapped, flips>>

CliToGcode ==
  /\ fn = "none"
  /\ textIn = <<>>
  /\ fn' = "to_gcode"
  /\ program' = to_gcode(segsIn)
  /\ UNCHANGED <<session, server, textIn, budget, segsIn, wrapped, flips>>

TextToGcode ==
  /\ fn = "none"
  /\ segsIn = <<>>
  /\ fn' = "text_to_gcode"
  /\ program' = text_to_gcode(textIn)
  /\ UNCHANGED <<session, server, textIn, budget, segsIn, wrapped, flips>>

NextCompile ==
  \/ ToGcode
  \/ CliToGcode
  \/ TextToGcode

SpecCompile == InitCompile /\ [][NextCompile]_vars

InitWrap ==
  /\ SessionIdle
  /\ ServerIdle
  /\ flips = <<FLIP_X, FLIP_Y>>
  /\ fn = "none"
  /\ segsIn = <<>>
  /\ program = <<>>
  /\ wrapped = <<>>
  /\ textIn \in Texts
  /\ budget \in Budgets

WrapTextLines ==
  /\ fn = "none"
  /\ fn' = "_wrap_text_lines"
  /\ wrapped' = _wrap_text_lines(textIn, budget)
  /\ UNCHANGED <<session, server, textIn, budget, segsIn, program, flips>>

NextWrap == WrapTextLines

SpecWrap == InitWrap /\ [][NextWrap]_vars

(***************************************************************************)
(* Placement: segments in font units, any setting of the flips.            *)
(***************************************************************************)
\* Ends of strokes in font units: within a glyph, and far right of and far
\* below what the workspace holds.
UnitPoints == {<<0, 0>>, <<20, 40>>, <<2000, 0>>, <<0, -2000>>}
UnitSegments == UnitPoints \X UnitPoints

\* Twelve lines of one capital: taller than the workspace.
TallText == [i \in 1..23 |-> IF i % 2 = 1 THEN "L" ELSE "\n"]

InitPlace ==
  /\ SessionIdle
  /\ ServerIdle
  /\ fn = "none"
  /\ budget = 0
  /\ program = <<>>
  /\ wrapped = <<>>
  /\ \/ /\ segsIn \in SeqsUpTo(UnitSegments, MaxSegs)
        /\ textIn = <<>>
        /\ flips \in BOOLEAN \X BOOLEAN
     \/ /\ segsIn = <<>>
        /\ textIn = TallText
        /\ flips \in BOOLEAN \X BOOLEAN

\* gcode.py: placement at the left middle, then _to_gcode.
LeftMiddleToGcode ==
  /\ fn = "none"
  /\ textIn = <<>>
  /\ fn' = "left_middle"
  /\ program' = _to_gcode(_units_to_mm_left_middle(segsIn, _mm_per_unit_for_cap_height))
  /\ UNCHANGED <<session, server, textIn, budget, segsIn, wrapped, flips>>

\* hershey_gcode_cli.py: placement at the top left, then to_gcode.
TopLeftToGcode ==
  /\ fn = "none"
  /\ textIn = <<>>
  /\ fn' = "top_left"
  /\ program' = to_gcode(units_to_mm_top_left(segsIn, compute_mm_per_unit_for_cap_height))
  /\ UNCHANGED <<session, server, textIn, budget, segsIn, wrapped, flips>>

NextPlace ==
  \/ LeftMiddleToGcode
  \/ TopLeftToGcode
  \/ TextToGcode

SpecPlace == InitPlace /\ [][NextPlace]_vars

(***************************************************************************)
(* src/back-end/app.py: the job queue behind /submit and GET /gcode.       *)
(*                                                                         *)
(* Every request is served by its own thread; a thread is at one of the    *)
(* places "new" (not yet arrived), "s_lock" (submit_job before `with       *)
(* _lock`), "s_check" and "s_append" (inside it), "g_lock", "g_check",     *)
(* "g_pop" (gcode, likewise), "g_compile" (after the block), "done".       *)
(***************************************************************************)
MAX_QUEUE == 25

\* The "text" fields that requests come with.
PostedTexts == { <<>>, <<" ">>, <<"c">>, <<" ", "d", " ">> }

\* A queue of n texts as earlier submissions left it.
Prefill(n) == [i \in 1..n |-> IF i % 2 = 1 THEN <<"a">> ELSE <<"b">>]
QueuesAtStart == {Prefill(n) : n \in {0, 1, MAX_QUEUE - 1, MAX_QUEUE}}

Answer(p, route, code, error, t, position) ==
  reply' = [reply EXCEPT ![p] = [route |-> route, code |-> code, error |-> error,
                                 job |-> t, position |-> position]]

\* Mutant: the text is not stripped before it is tested.
SubmitJob_noStrip(p) ==
  /\ rpc[p] = "new"
  /\ \E t \in PostedTexts :
       /\ data' = [data EXCEPT ![p] = t]
       /\ ltext' = [ltext EXCEPT ![p] = t]
       /\ IF t = <<>>
          THEN /\ Answer(p, "submit", 400, "Missing text", <<>>, 0)
               /\ rpc' = [rpc EXCEPT ![p] = "done"]
          ELSE /\ rpc' = [rpc EXCEPT ![p] = "s_lock"]
               /\ UNCHANGED reply
  /\ UNCHANGED <<_job_queue, _lock, accepted, delivered>>
  /\ UNCHANGED <<session, fn, textIn, budget, segsIn, program, wrapped, flips>>

\* submit_job, lines 19-22.
SubmitJob(p) ==
  /\ rpc[p] = "new"
  /\ \E t \in PostedTexts :
       /\ data' = [data EXCEPT ![p] = t]
       /\ ltext' = [ltext EXCEPT ![p] = Strip(t)]
       /\ IF Strip(t) = <<>>
          THEN /\ Answer(p, "submit", 400, "Missing text", <<>>, 0)
               /\ rpc' = [rpc EXCEPT ![p] = "done"]
          ELSE /\ rpc' = [rpc EXCEPT ![p] = "s_lock"]
               /\ UNCHANGED reply
  /\ UNCHANGED <<_job_queue, _lock, accepted, delivered>>
  /\ UNCHANGED <<session, fn, textIn, budget, segsIn, program, wrapped, flips>>

\* Mutant: the block is entered without the lock.
EnterLock_unguarded(p, from, to) ==
  /\ rpc[p] = from
  /\ rpc' = [rpc EXCEPT ![p] = to]
  /\ UNCHANGED <<_job_queue, _lock, data, ltext, reply, accepted, delivered>>
  /\ UNCHANGED <<session, fn, textIn, budget, segsIn, program, wrapped, flips>>

\* `with _lock:` at lines 24 and 45: the thread blocks until the lock is free.
EnterLock(p, from, to) ==
  /\ rpc[p] = from
  /\ _lock = 0
  /\ _lock' = p
  /\ rpc' = [rpc EXCEPT ![p] = to]
  /\ UNCHANGED <<_job_queue, data, ltext, reply, accepted, delivered>>
  /\ UNCHANGED <<session, fn, textIn, budget, segsIn, program, wrapped, flips>>

SubmitAcquire(p) == EnterLock(p, "s_lock", "s_check")

\* Lines 25-26: a full queue is answered 429 and the block is left.
SubmitCheck(p) ==
  /\ rpc[p] = "s_check"
  /\ IF Len(_job_queue) >= MAX_QUEUE
     THEN /\ Answer(p, "submit", 429, "Queue full", <<>>, 0)
          /\ _lock' = 0
          /\ rpc' = [rpc EXCEPT ![p] = "done"]
     ELSE /\ rpc' = [rpc EXCEPT ![p] = "s_append"]
          /\ UNCHANGED <<reply, _lock>>
  /\ UNCHANGED <<_job_queue, data, ltext, accepted, delivered>>
  /\ UNCHANGED <<session, fn, textIn, budget, segsIn, program, wrapped, flips>>

\* Lines 27-30.
SubmitAppend(p) ==
  /\ rpc[p] = "s_append"
  /\ _job_queue' = Append(_job_queue, ltext[p])
  /\ accepted' = Append(accepted, ltext[p])
  /\ Answer(p, "submit", 200, "", ltext[p], Len(_job_queue) + 1)
  /\ _lock' = 0
  /\ rpc' = [rpc EXCEPT ![p] = "done"]
  /\ UNCHANGED <<data, ltext, delivered>>
  /\ UNCHANGED <<session, fn, textIn, budget, segsIn, program, wrapped, flips>>

\* gcode with method GET, line 44.
GcodeGet(p) ==
  /\ rpc[p] = "new"
  /\ rpc' = [rpc EXCEPT ![p] = "g_lock"]
  /\ UNCHANGED <<_job_queue, _lock, data, ltext, reply, accepted, delivered>>
  /\ UNCHANGED <<session, fn, textIn, budget, segsIn, program, wrapped, flips>>

GcodeAcquire(p) == EnterLock(p, "g_lock", "g_check")

\* Lines 46-47.
GcodeCheck(p) ==
  /\ rpc[p] = "g_check"
  /\ IF _job_queue = <<>>
     THEN /\ Answer(p, "gcode", 200, "NOJOB", <<>>, 0)
          /\ _lock' = 0
          /\ rpc' = [rpc EXCEPT ![p] = "done"]
     ELSE /\ rpc' = [rpc EXCEPT ![p] = "g_pop"]
          /\ UNCHANGED <<reply, _lock>>
  /\ UNCHANGED <<_job_queue, data, ltext, accepted, delivered>>
  /\ UNCHANGED <<session, fn, textIn, budget, segsIn, program, wrapped, flips>>

\* Mutant: pop() where popleft() was meant.
GcodePop_newest(p) ==
  /\ rpc[p] = "g_pop"
  /\ ltext' = [ltext EXCEPT ![p] = _job_queue[Len(_job_queue)]]
  /\ _job_queue' = SubSeq(_job_queue, 1, Len(_job_queue) - 1)
  /\ delivered' = Append(delivered, _job_queue[Len(_job_queue)])
  /\ _lock' = 0
  /\ rpc' = [rpc EXCEPT ![p] = "g_compile"]
  /\ UNCHANGED <<data, reply, accepted>>
  /\ UNCHANGED <<session, fn, textIn, budget, segsIn, program, wrapped, flips>>

\* Line 49, and the end of the block.
GcodePop(p) ==
  /\ rpc[p] = "g_pop"
  /\ ltext' = [ltext EXCEPT ![p] = Head(_job_queue)]
  /\ _job_queue' = Tail(_job_queue)
  /\ delivered' = Append(delivered, Head(_job_queue))
  /\ _lock' = 0
  /\ rpc' = [rpc EXCEPT ![p] = "g_compile"]
  /\ UNCHANGED <<data, reply, accepted>>
  /\ UNCHANGED <<session, fn, textIn, budget, segsIn, program, wrapped, flips>>

\* Lines 51-52: the answer is the G-code of the text taken.
GcodeCompile(p) ==
  /\ rpc[p] = "g_compile"
  /\ Answer(p, "gcode", 200, "", ltext[p], 0)
  /\ rpc' = [rpc EXCEPT ![p] = "done"]
  /\ UNCHANGED <<_job_queue, _lock, data, ltext, accepted, delivered>>
  /\ UNCHANGED <<session, fn, textIn, budget, segsIn, program, wrapped, flips>>

InitQueue ==
  /\ SessionIdle
  /\ fn = "none"
  /\ textIn = <<>>
  /\ budget = 0
  /\ segsIn = <<>>
  /\ program = <<>>
  /\ wrapped = <<>>
  /\ flips = <<FLIP_X, FLIP_Y>>
  /\ _job_queue \in QueuesAtStart
  /\ accepted = _job_queue
  /\ delivered = <<>>
  /\ _lock = 0
  /\ rpc = [p \in Procs |-> "new"]
  /\ data = [p \in Procs |-> <<>>]
  /\ ltext = [p \in Procs |-> <<>>]
  /\ reply = [p \in Procs |-> NoReply]

NextQueue ==
  \/ \E p \in Procs : SubmitJob(p)
  \/ \E p \in Procs : SubmitAcquire(p)
  \/ \E p \in Procs : SubmitCheck(p)
  \/ \E p \in Procs : SubmitAppend(p)
  \/ \E p \in Procs : GcodeGet(p)
  \/ \E p \in Procs : GcodeAcquire(p)
  \/ \E p \in Procs : GcodeCheck(p)
  \/ \E p \in Procs : GcodePop(p)
  \/ \E p \in Procs : GcodeCompile(p)

SpecQueue == InitQueue /\ [][NextQueue]_vars

(***************************************************************************)
(* Properties of the device session.                                       *)
(***************************************************************************)
HasSuccess(b) == Contains(b, TOK_OK) \/ Contains(b, TOK_PGM_END)
HasFault(b) == Contains(b, TOK_ALARM) \/ Contains(b, TOK_ERROR)
Count(log, l) == Cardinality({i \in DOMAIN log : log[i] = l})
IsPrefix(a, b) == Len(a) <= Len(b) /\ SubSeq(b, 1, Len(a)) = a
\* The session has not polled yet: txlog is the log since power-up.
InBoot == pc \in BootStages \/ (pc = "halted" /\ haltedFrom \in BootStages)
Repeat(l, n) == [i \in 1..n |-> l]
\* The boot transmissions with k unlock attempts.
BootScript(k) ==
  <<CMD_PEN_UP>> \o Repeat(CMD_UNLOCK, k)
    \o <<CMD_HOME, CMD_ABSOLUTE, CMD_MM, CMD_SET_ORIGIN>>

\* C1: once send_line_wait has failed for a line of a job, nothing more is
\* transmitted (no remaining line of the job, no recovery command): the only
\* step the session takes is into Halted, where it stays and stays silent.
C1_HaltOnFault ==
  [][ /\ (pc = "run" /\ io = "fail")
          => /\ txlog' = txlog
             /\ job' = job
             /\ \/ pc' = "run" /\ io' = "fail"
                \/ pc' = "halted" /\ haltedFrom' = "run"
      /\ (pc = "halted" /\ haltedFrom = "run")
          => pc' = "halted" /\ haltedFrom' = "run" /\ txlog' = txlog /\ job' = job
    ]_vars

\* C1 witness: the session is halted by a failed job line while a line of
\* the job that would have been sent is still waiting.
C1_Witness ==
  /\ pc = "halted"
  /\ haltedFrom = "run"
  /\ \E i \in DOMAIN job : normalize_gcode_line(job[i]) # NONE
  /\ Len(txlog) = 1

\* C2: whenever the bytes received while waiting on a job line contain an
\* alarm or error token, send_line_wait returns failure for that line.
C2_FaultAlwaysFatal ==
  (pc = "run" /\ io \in {"ok", "fail"} /\ HasFault(buf)) => io = "fail"

\* C3: whenever the bytes read during a call, taken together and case-folded,
\* contain the acknowledgment or program-end token and no alarm or error
\* token, the call has returned success, however the bytes were split over
\* the reads.
C3_TokenReassembly ==
  (HasSuccess(buf) /\ ~HasFault(buf)) => io = "ok"

\* C3 witness: success on a mixed-case acknowledgment that followed an
\* informational byte and whose two letters came in different reads.
C3_Witness ==
  /\ io = "ok"
  /\ buf = <<"x", "o", "k">>
  /\ r = <<"k">>

\* C9 as claimed: the first command transmitted after the wake sequence and
\* the drain is the unlock command, and Halted is entered during boot only on
\* an unlock or homing failure.
C9_BootOrder_AsClaimed ==
  InBoot =>
    /\ (txlog # <<>> => txlog[1] = CMD_UNLOCK)
    /\ (pc = "halted" => haltedFrom \in {"unlock", "home"})

\* C9 as amended: nothing is transmitted before the wake sequence and the
\* drain are over; the boot transmissions are then, in this order, pen-up,
\* one to five unlocks, homing, absolute mode, millimetres, set-origin;
\* unlock is transmitted only after pen-up was acknowledged, homing only
\* after an unlock was acknowledged, the zeroing commands only after homing
\* was acknowledged; Halted is entered during boot only on a pen-up, unlock
\* or homing failure.
C9_BootOrder ==
  InBoot =>
    /\ (pc \in {"wake", "settle"} => txlog = <<>>)
    /\ \E k \in 1..UNLOCK_ATTEMPTS : IsPrefix(txlog, BootScript(k))
    /\ (Count(txlog, CMD_UNLOCK) > 0 => "boot_m5" \in acked)
    /\ (Count(txlog, CMD_HOME) > 0 => "unlock" \in acked /\ unlocked)
    /\ (Count(txlog, CMD_ABSOLUTE) > 0 => "home" \in acked)
    /\ (pc = "halted" => haltedFrom \in {"boot_m5", "unlock", "home"})
    /\ (pc \in {"zero_g90", "zero_g21", "zero_g92"}
          => {"boot_m5", "unlock", "home"} \subseteq acked)

\* C9 witness: the last zeroing command is out after a boot that needed a
\* second unlock attempt.
C9_Witness ==
  /\ pc = "zero_g92"
  /\ io = "wait"
  /\ txlog = BootScript(2)

\* C10: the unlock command is transmitted at most UNLOCK_ATTEMPTS times; an
\* acknowledged attempt ends the retrying and the session goes on to homing;
\* the session is halted from the unlock loop exactly when all attempts have
\* failed, and then transmits nothing more.
C10_UnlockRetry ==
  /\ [](InBoot =>
          /\ Count(txlog, CMD_UNLOCK) <= UNLOCK_ATTEMPTS
          /\ (pc = "halted" /\ haltedFrom = "unlock"
                => Count(txlog, CMD_UNLOCK) = UNLOCK_ATTEMPTS /\ ~unlocked)
          /\ (unlocked => pc \notin {"unlock", "backoff"}))
  /\ [][ /\ (pc = "unlock" /\ io = "ok")
             => pc' \in {"unlock", "home"} /\ txlog' = txlog
         /\ (InBoot /\ unlocked)
             => Count(txlog', CMD_UNLOCK) <= Count(txlog, CMD_UNLOCK)
         /\ (pc = "backoff" /\ Count(txlog, CMD_UNLOCK) = UNLOCK_ATTEMPTS)
             => pc' \in {"backoff", "halted"} /\ txlog' = txlog
         /\ (pc = "backoff" /\ Count(txlog, CMD_UNLOCK) < UNLOCK_ATTEMPTS)
             => pc' \in {"backoff", "unlock"}
         /\ (pc = "halted" /\ haltedFrom = "unlock")
             => pc' = "halted" /\ txlog' = txlog
       ]_vars

\* C10 witness: halted after the fifth failed unlock attempt.
C10_Witness ==
  /\ pc = "halted"
  /\ haltedFrom = "unlock"
  /\ Count(txlog, CMD_UNLOCK) = UNLOCK_ATTEMPTS

Last(log) == log[Len(log)]
\* The commands of reset_after_job, in the order of the claim.
RecoveryScript ==
  <<CMD_PEN_UP, CMD_ABSOLUTE, CMD_MM, CMD_GO_ORIGIN, CMD_SET_ORIGIN>>
RecoveryIndex(stage) ==
  CASE stage = "rec_m5" -> 1
    [] stage = "rec_g90" -> 2
    [] stage = "rec_g21" -> 3
    [] stage = "rec_g0" -> 4
    [] stage = "rec_g92" -> 5
    [] OTHER -> 6
\* How many recovery commands are out in this state of the recovery.
RecoverySent ==
  IF pc = "halted" THEN RecoveryIndex(haltedFrom)
  ELSE IF pc \in {"rec_flush", "job_sleep"} THEN 5
  ELSE IF io = "idle" THEN RecoveryIndex(pc) - 1
  ELSE RecoveryIndex(pc)
InRecovery ==
  \/ pc \in RecoverStages \cup {"job_sleep"}
  \/ pc = "halted" /\ haltedFrom \in RecoverStages
\* The bodies of FetchResults that are a job: fetched without error and,
\* stripped and upper-cased, neither empty nor NOJOB nor NONE.
JobBodies ==
  {Strip(res.text) : res \in
     {q \in FetchResults :
        /\ ~q.err
        /\ Upper(Strip(q.text)) \notin
             {<<>>, <<"N", "O", "J", "O", "B">>, <<"N", "O", "N", "E">>}}}

\* C11: when send_line_wait has failed for the homing command at boot or
\* for the rapid move to the origin after a job, the session transmits
\* nothing more and its only step is into Halted, where it stays: the last
\* line transmitted is the failed command itself (no re-zero after a failed
\* return to the origin) and no poll follows.
C11_SetupFaultHalts ==
  /\ [](pc = "halted" /\ haltedFrom \in {"home", "rec_g0"}
          => /\ txlog # <<>>
             /\ Last(txlog) = (IF haltedFrom = "home" THEN CMD_HOME ELSE CMD_GO_ORIGIN)
             /\ (haltedFrom = "rec_g0" => Count(txlog, CMD_SET_ORIGIN) = 0))
  /\ [][ /\ (pc \in {"home", "rec_g0"} /\ io = "fail")
             => /\ txlog' = txlog
                /\ \/ pc' = pc /\ io' = "fail"
                   \/ pc' = "halted" /\ haltedFrom' = pc
         /\ (pc = "halted" /\ haltedFrom \in {"home", "rec_g0"})
             => pc' = "halted" /\ haltedFrom' = haltedFrom /\ txlog' = txlog
       ]_vars

\* C11 witness: halted by a failed return to the origin after a job of
\* which a line was sent.
C11_Witness ==
  /\ pc = "halted"
  /\ haltedFrom = "rec_g0"
  /\ Len(txlog) = 5
  /\ Last(txlog) = CMD_GO_ORIGIN

\* C12: recovery starts only from run_job with no line left and no call
\* pending, and a job line that was not acknowledged is never followed by
\* another step of the job; during recovery no job line is left, and the
\* lines transmitted since the job's last line are, in this order, pen-up,
\* absolute mode, millimetres, the rapid move to the origin, the re-zero;
\* nothing is transmitted during the drain; the sleep before the next poll
\* is entered only from the finished drain, and polling only from a sleep
\* or from the end of the boot.
C12_RecoverySequence ==
  /\ [](InRecovery
          => /\ job = <<>>
             /\ Len(txlog) >= RecoverySent
             /\ SubSeq(txlog, Len(txlog) - RecoverySent + 1, Len(txlog))
                  = SubSeq(RecoveryScript, 1, RecoverySent))
  /\ [][ /\ (pc' = "rec_m5" /\ pc # "rec_m5")
             => pc = "run" /\ io = "idle" /\ job = <<>>
         /\ (pc = "run" /\ io \in {"wait", "fail"})
             => ~(pc' = "run" /\ io' = "idle") /\ pc' # "rec_m5"
         /\ (pc = "rec_flush") => txlog' = txlog
         /\ (pc' = "job_sleep" /\ pc # "job_sleep")
             => pc = "rec_flush" /\ elapsed >= JOB_FLUSH_MS
         /\ (pc' = "poll" /\ pc # "poll")
             => pc \in {"zero_g92", "poll_sleep", "job_sleep"}
       ]_vars

\* C12 witness: the drain is over after the recovery of a two-line job.
C12_Witness ==
  /\ pc = "job_sleep"
  /\ Len(txlog) = 7
  /\ SubSeq(txlog, 3, 7) = RecoveryScript

\* C13: no failure of a zeroing command halts the session: whatever
\* send_line_wait returned for one, the next step is the next zeroing
\* command, or the first poll after the last one, with the boot commands
\* all transmitted in order; and a session that is zeroing gets to polling.
C13_ZeroingNonFatal ==
  /\ [](haltedFrom \notin ZeroStages)
  /\ [][ /\ (pc = "zero_g90" /\ io \in {"ok", "fail"}) => pc' \in {"zero_g90", "zero_g21"}
         /\ (pc = "zero_g21" /\ io \in {"ok", "fail"}) => pc' \in {"zero_g21", "zero_g92"}
         /\ (pc = "zero_g92" /\ io \in {"ok", "fail"}) => pc' \in {"zero_g92", "poll"}
         /\ (pc = "zero_g92" /\ pc' = "poll")
             => \E k \in 1..UNLOCK_ATTEMPTS : txlog = BootScript(k)
       ]_vars
  /\ (pc \in ZeroStages) ~> (pc = "poll")

\* C13 witness: the first poll is due after a boot in which none of the
\* three zeroing commands was acknowledged.
C13_Witness ==
  /\ pc = "poll"
  /\ txlog = BootScript(1)
  /\ acked = {"boot_m5", "unlock", "home"}

\* C14: a poll leaves Idle only for run_job and only with a body that is a
\* job (so never on a fetch error or on an empty or sentinel body) and never
\* for Halted; the sleep that follows a poll without a job transmits
\* nothing and ends in the next poll.
C14_IdlePolling ==
  /\ [](pc = "poll_sleep" => txlog = <<>> /\ io = "idle")
  /\ [][ /\ (pc = "poll") => pc' \in {"poll", "poll_sleep", "run"}
         /\ (pc = "poll" /\ pc' = "run")
             => \E body \in JobBodies : job' = SplitLines(body)
         /\ (pc = "poll_sleep")
             => pc' \in {"poll_sleep", "poll"} /\ txlog' = txlog
       ]_vars
  /\ (pc = "poll_sleep") ~> (pc = "poll")

\* C14 witness: the session sleeps after a poll without a job while bytes
\* of the controller are still on their way.
C14_Witness ==
  /\ pc = "poll_sleep"
  /\ txlog = <<>>
  /\ wire # <<>>

\* C19: a halted session stays halted for the same reason, transmits
\* nothing and takes no job, whatever the controller still sends.
C19_HaltedTerminal ==
  [][ pc = "halted"
        => /\ pc' = "halted"
           /\ haltedFrom' = haltedFrom
           /\ txlog' = txlog
           /\ job' = job
           /\ io' = "idle"
    ]_vars

\* C19 witness: halted by the failed pen-up of the recovery, with bytes of
\* the controller unread.
C19_Witness ==
  /\ pc = "halted"
  /\ haltedFrom = "rec_m5"
  /\ rx # <<>>

PastBoot == pc \notin BootStages /\ ~(pc = "halted" /\ haltedFrom \in BootStages)

\* C23: the session polls the job source, runs a job or recovers only after
\* send_line_wait has returned success for an unlock and for the homing
\* command of this session; every line of a job is transmitted then; the
\* homing command is transmitted from the boot sequence only, once, and the
\* session never goes back into the boot sequence.
C23_NoJobBeforeHoming ==
  /\ [](PastBoot => {"unlock", "home"} \subseteq acked /\ unlocked)
  /\ [](Count(txlog, CMD_HOME) <= 1)
  /\ [][ /\ (txlog' # txlog /\ txlog' # <<>> /\ pc = "run")
             => {"unlock", "home"} \subseteq acked
         /\ (txlog' # txlog /\ txlog' # <<>> /\ Last(txlog') = CMD_HOME)
             => pc = "home" /\ Count(txlog, CMD_HOME) = 0
         /\ PastBoot => PastBoot'
       ]_vars

\* C23 witness: the second line of a job is out, after a boot in which the
\* unlock and the homing were acknowledged.
C23_Witness ==
  /\ pc = "run"
  /\ io = "wait"
  /\ txlog = <<<<"G", "0">>, <<"G", "1">>>>
  /\ {"unlock", "home"} \subseteq acked

\* The part of the running call's buffer that the controller wrote after the
\* call's line was transmitted.
OwnBytes == SubSeq(buf, staleBuf + 1, Len(buf))

\* C21: a call of send_line_wait returns success only when the bytes the
\* controller wrote in reply to the call's own line hold a success token:
\* bytes left over from an earlier command never make a later line count as
\* acknowledged.
C21_AckAttribution == io = "ok" => HasSuccess(OwnBytes)

(***************************************************************************)
(* Properties of the job queue.                                            *)
(***************************************************************************)
InBlock(p) == rpc[p] \in {"s_check", "s_append", "g_check", "g_pop"}
Stepped(p) == rpc'[p] # rpc[p]
\* The request p is a poll that was given a job.
Handed(p) ==
  \/ rpc[p] = "g_compile"
  \/ rpc[p] = "done" /\ reply[p].route = "gcode" /\ reply[p].error = ""
IsBlank(t) == \A i \in DOMAIN t : IsSpace(t[i])

\* C15: the queue never holds more than MAX_QUEUE texts, and no position
\* answered is beyond it; at most one request is inside a `with _lock`
\* block; a submission that finds MAX_QUEUE texts at its test is answered
\* 429 in its very next step, which leaves the queue as it is.
C15_BoundedQueue ==
  /\ [](Len(_job_queue) <= MAX_QUEUE)
  /\ [](\A p \in Procs : reply[p].position <= MAX_QUEUE)
  /\ [](Cardinality({p \in Procs : InBlock(p)}) <= 1)
  /\ [][ \A p \in Procs :
           (rpc[p] = "s_check" /\ Len(_job_queue) >= MAX_QUEUE /\ Stepped(p))
             => /\ rpc'[p] = "done"
                /\ reply'[p].code = 429
                /\ _job_queue' = _job_queue
       ]_vars

\* C15 witness: of two submissions that met MAX_QUEUE - 1 texts, one took
\* the last place and the other was turned away.
C15_Witness ==
  /\ Len(_job_queue) = MAX_QUEUE
  /\ \E p, q \in Procs :
       /\ reply[p].code = 200 /\ reply[p].position = MAX_QUEUE
       /\ reply[q].code = 429

\* C16: the texts accepted so far are, in the order of their acceptance,
\* the texts handed to polls followed by the texts still queued; every text
\* taken from the queue is with exactly one poll; a poll that finds the
\* queue empty answers NOJOB in its next step and leaves the queue alone.
C16_FifoAtMostOnce ==
  /\ [](accepted = delivered \o _job_queue)
  /\ [](Cardinality({p \in Procs : Handed(p)}) = Len(delivered))
  /\ [](\A p \in Procs :
          Handed(p) => \E i \in DOMAIN delivered : delivered[i] = ltext[p])
  /\ [][ \A p \in Procs :
           (rpc[p] = "g_check" /\ _job_queue = <<>> /\ Stepped(p))
             => /\ rpc'[p] = "done"
                /\ reply'[p].error = "NOJOB"
                /\ _job_queue' = _job_queue
                /\ delivered' = delivered
       ]_vars

\* C16 witness: a text submitted behind a queued one was handed out second,
\* and the queue is empty again.
C16_Witness ==
  /\ delivered = << <<"a">>, <<"c">> >>
  /\ _job_queue = <<>>
  /\ \E p \in Procs : reply[p].route = "gcode" /\ reply[p].job = <<"c">>

\* C17: a finished submission was answered 400 exactly if its text was
\* empty or blank, and 429 only by a step that found the queue full; the
\* step that answers 400 or 429, like every step of a submission before its
\* append, leaves the queue and its history as they were; so no blank text
\* is ever queued.
C17_InputErrorsNoChange ==
  /\ [](\A p \in Procs :
          (rpc[p] = "done" /\ reply[p].route = "submit")
            => /\ (reply[p].code = 400 <=> IsBlank(data[p]))
               /\ reply[p].code \in {200, 400, 429}
               /\ (reply[p].code # 200 => reply[p].error # ""))
  /\ [](\A i \in DOMAIN _job_queue : ~IsBlank(_job_queue[i]))
  /\ [][ \A p \in Procs :
           /\ (Stepped(p) /\ reply'[p].code \in {400, 429})
                => /\ _job_queue' = _job_queue
                   /\ accepted' = accepted
                   /\ delivered' = delivered
           /\ (Stepped(p) /\ reply'[p].code = 429) => Len(_job_queue) >= MAX_QUEUE
           /\ (Stepped(p) /\ rpc[p] \in {"new", "s_lock", "s_check"})
                => _job_queue' = _job_queue
       ]_vars

\* C17 witness: a blank submission and a submission to the full queue were
\* both turned away.
C17_Witness ==
  /\ Len(_job_queue) = MAX_QUEUE
  /\ \E p, q \in Procs :
       /\ reply[p].code = 400 /\ data[p] = <<" ">>
       /\ reply[q].code = 429

(***************************************************************************)
(* Properties of the back end.                                             *)
(***************************************************************************)
CountCmd(prog, c) == Cardinality({i \in DOMAIN prog : prog[i] = c})
PenUps(prog) == CountCmd(prog, PEN_UP_CMD)
PenDowns(prog) == CountCmd(prog, PEN_DOWN_CMD)
\* The last pen command of a program.
LastPen(prog) ==
  LET at == {i \in DOMAIN prog : prog[i] \in {PEN_UP_CMD, PEN_DOWN_CMD}}
  IN IF at = {} THEN <<>> ELSE prog[SetMax(at)]
Compiled == fn \in {"_to_gcode", "to_gcode", "text_to_gcode"}
\* The places of the linear moves of a program, and what lies between the
\* k-th and the next.
LinearAt(prog) == {i \in DOMAIN prog : prog[i][1] = "G1"}
NthLinear(prog, k) ==
  CHOOSE i \in LinearAt(prog) : Cardinality({j \in LinearAt(prog) : j < i}) = k - 1
Between(prog, k) == SubSeq(prog, NthLinear(prog, k) + 1, NthLinear(prog, k + 1) - 1)
\* The squared distance from the end of segment k to the start of the next.
GapSquared(segs, k) ==
  (segs[k][2][1] - segs[k + 1][1][1]) * (segs[k][2][1] - segs[k + 1][1][1])
    + (segs[k][2][2] - segs[k + 1][1][2]) * (segs[k][2][2] - segs[k + 1][1][2])
WidestGlyph == SetMax({_line_width_units(<<ch>>) : ch \in TextChars})

\* C4 as claimed: every generated program has as many PenDown commands as
\* PenUp commands and does not end with the pen down.
C4_PenState_AsClaimed ==
  Compiled => PenDowns(program) = PenUps(program) /\ LastPen(program) = PEN_UP_CMD

\* C4 as amended: every generated program has one PenUp more than it has
\* PenDown commands (the header's) when it comes from _to_gcode or
\* text_to_gcode, and one more than twice as many when it comes from the
\* lifting to_gcode; its last pen command is a PenUp.
C4_PenState ==
  /\ fn \in {"_to_gcode", "text_to_gcode"} => PenUps(program) = PenDowns(program) + 1
  /\ fn = "to_gcode" => PenUps(program) = 2 * PenDowns(program) + 1
  /\ Compiled => LastPen(program) = PEN_UP_CMD

\* C4 witness: a program of _to_gcode with two strokes.
C4_Witness ==
  /\ fn = "_to_gcode"
  /\ Len(segsIn) = 2
  /\ PenDowns(program) = 2

\* C5: every program returned by text_to_gcode starts with SetUnits,
\* SetAbsolute, PenUp and has PenUp, ProgramEnd as its last two commands.
C5_Framing_AsClaimed ==
  fn = "text_to_gcode" =>
    /\ Len(program) >= 4
    /\ SubSeq(program, 1, 3) = <<SET_UNITS, SET_ABSOLUTE, PEN_UP_CMD>>
    /\ program[Len(program) - 1] = PEN_UP_CMD
    /\ program[Len(program)] = PROGRAM_END

\* C6: between the linear moves of two consecutive segments _to_gcode emits
\* nothing when the gap between them is below the connection tolerance, and
\* exactly PenUp, RapidMove(start of the second), PenDown when it is above;
\* the k-th linear move goes to the end of the k-th segment.
C6_Contiguity ==
  fn = "_to_gcode" =>
    /\ Cardinality(LinearAt(program)) = Len(segsIn)
    /\ \A k \in 1..Len(segsIn) : program[NthLinear(program, k)] = LinearMove(segsIn[k][2])
    /\ \A k \in 1..(Len(segsIn) - 1) :
         /\ GapSquared(segsIn, k) < CONNECT_TOL_UM * CONNECT_TOL_UM
              => Between(program, k) = <<>>
         /\ GapSquared(segsIn, k) > CONNECT_TOL_UM * CONNECT_TOL_UM
              => Between(program, k)
                   = <<PEN_UP_CMD, RapidMove(segsIn[k + 1][1]), PEN_DOWN_CMD>>

\* C6 witness: two segments half a millimetre apart, drawn in one stroke.
C6_Witness ==
  /\ fn = "_to_gcode"
  /\ Len(segsIn) = 2
  /\ segsIn[1][2] = <<0, 0>>
  /\ segsIn[2][1] = <<300, 400>>
  /\ Between(program, 1) = <<>>

\* C7: for blank text text_to_gcode returns a program without RapidMove,
\* LinearMove or PenDown whose header is the fixed header SetUnits,
\* SetAbsolute, PenUp, feedrate declaration of every other program.
C7_EmptyInput_AsClaimed ==
  (fn = "text_to_gcode" /\ IsBlank(textIn)) =>
    /\ \A i \in DOMAIN program : program[i][1] \notin {"G0", "G1", "M03|G4"}
    /\ Len(program) >= 4
    /\ SubSeq(program, 1, 4) = <<SET_UNITS, SET_ABSOLUTE, PEN_UP_CMD, Feed(FEEDRATE)>>

PenBefore(prog, i) == LastPen(SubSeq(prog, 1, i - 1))

\* C22: in every generated program, following the pen commands from the
\* start, every RapidMove comes while the pen is up, every LinearMove while
\* the pen is down, and every PenDown while the pen is up.
C22_PenMoveConsistency ==
  Compiled =>
    \A i \in DOMAIN program :
      /\ program[i][1] = "G0" => PenBefore(program, i) = PEN_UP_CMD
      /\ program[i][1] = "G1" => PenBefore(program, i) = PEN_DOWN_CMD
      /\ program[i] = PEN_DOWN_CMD => PenBefore(program, i) = PEN_UP_CMD

\* C22 witness: a program of _to_gcode for two strokes that are apart: the
\* pen is lifted after the first, moved, and lowered again.
C22_Witness ==
  /\ fn = "_to_gcode"
  /\ Len(segsIn) = 2
  /\ segsIn[1][2] = <<0, 0>>
  /\ segsIn[2][1] = <<0, 601>>
  /\ Between(program, 1) = <<PEN_UP_CMD, RapidMove(<<0, 601>>), PEN_DOWN_CMD>>

\* The bounds of the drawable area, and a coordinate pair cut to them.
InDrawable(x, y) ==
  /\ MARGIN_UM <= x /\ x <= WORKSPACE_WIDTH_UM - MARGIN_UM
  /\ MARGIN_UM <= y /\ y <= WORKSPACE_HEIGHT_UM - MARGIN_UM
Crop(v, dimension) ==
  IF v < MARGIN_UM THEN MARGIN_UM
  ELSE IF v > dimension - MARGIN_UM THEN dimension - MARGIN_UM
  ELSE v
CropPoint(q) == <<Crop(q[1], WORKSPACE_WIDTH_UM), Crop(q[2], WORKSPACE_HEIGHT_UM)>>
\* Where placement and flips put the end of segment k, before any clamp.
RawEnd(k) ==
  IF fn = "left_middle"
  THEN RawLeftMiddle(segsIn[k][2], _bbox_of_segments(segsIn), _mm_per_unit_for_cap_height)
  ELSE RawTopLeft(segsIn[k][2], _bbox_of_segments(segsIn),
                  compute_mm_per_unit_for_cap_height)

\* C18: in every program generated, under either placement and any setting
\* of the two flips, the coordinates of every RapidMove and LinearMove are
\* within [margin, width - margin] and [margin, height - margin]; and the
\* end of every stroke is where placement put it, cut to those bounds: a
\* point inside them is not moved, a point outside goes to the bound.
C18_WorkspaceClamp ==
  fn \in {"left_middle", "top_left", "text_to_gcode"} =>
    /\ \A i \in DOMAIN program :
         program[i][1] \in {"G0", "G1"} => InDrawable(program[i][2], program[i][3])
    /\ fn \in {"left_middle", "top_left"} =>
         /\ Cardinality(LinearAt(program)) = Len(segsIn)
         /\ \A k \in 1..Len(segsIn) :
              program[NthLinear(program, k)] = LinearMove(CropPoint(RawEnd(k)))

\* C18 witness: with X mirrored, a program was compiled from a stroke that
\* placement left inside the bounds and a stroke from beyond the right edge
\* (mirrored: cut to the left margin) to below the bottom edge.
C18_Witness ==
  /\ fn = "top_left"
  /\ flips = <<TRUE, FALSE>>
  /\ Len(segsIn) = 2
  /\ RawEnd(1) = CropPoint(RawEnd(1))
  /\ RawEnd(2)[2] < MARGIN_UM
  /\ \E i \in DOMAIN program :
       /\ program[i][1] = "G0"
       /\ program[i][2] = MARGIN_UM
       /\ RawTopLeft(segsIn[2][1], _bbox_of_segments(segsIn),
                     compute_mm_per_unit_for_cap_height)[1] < MARGIN_UM

====
